---- MODULE Spec2Model ----
\* Model of reality-check: the Kalshi provider (kalshi_provider.py: retrying
\* requests, cursor pagination, record shaping) and the update script
\* (main.py: fetch, diff against markets.json, embed new titles, save).
\*
\* Numbers: a probability or a vector component x is held as the integer
\* x * 10^6, so that round(x, 4) and round(x, 5) are real roundings.
\* Text: a title is a sequence of one-character strings.
EXTENDS Integers, Sequences, FiniteSets, TLC

\* ---------------------------------------------------------------- bounds
MaxEvents == 2          \* events one fetch keeps; a page's length is what is left of it
MaxPages == 2           \* page responses the upstream serves over one fetch of main()
MaxProviderPages == 3   \* the same, for the provider on its own
MaxRetriesBound == 3    \* largest max_retries a provider is constructed with
MaxDelay == 2           \* largest base_delay a provider is constructed with

\* ------------------------------------------------------- program constants
DefaultMaxRetries == 3
DefaultBaseDelay == 2
ProbPrecision == 4
VECTOR_PRECISION == 5
Scale == 6              \* the model's fixed point: x is held as x * 10^Scale

None == "None"          \* Python's None, where a string is expected
Whitespace == {" ", "\t"}

RECURSIVE Pow(_, _)
Pow(b, e) == IF e = 0 THEN 1 ELSE b * Pow(b, e - 1)

SeqsUpTo(S, n) == UNION {[1..k -> S] : k \in 0..n}

Range(s) == {s[i] : i \in 1..Len(s)}

RECURSIVE SelectSeqBy(_, _)
\* the subsequence of the records of s whose id is in ids
SelectSeqBy(s, ids) ==
    IF s = <<>> THEN <<>>
    ELSE (IF Head(s).id \in ids THEN <<Head(s)>> ELSE <<>>) \o SelectSeqBy(Tail(s), ids)

\* ------------------------------------------------------------- rounding
\* Python's round(x, places): to the nearest multiple of 10^-places, a tie
\* going to the even multiple.
round(x, places) ==
    LET m == Pow(10, Scale - places)
        q == x \div m
        r == x % m
    IN  IF 2 * r > m \/ (2 * r = m /\ q % 2 = 1) THEN (q + 1) * m ELSE q * m

round_vector(vector) == [i \in 1..Len(vector) |-> round(vector[i], VECTOR_PRECISION)]

\* ------------------------------------------------------ the upstream's data
\* A market field that may be missing (or null) is <<>> when missing and
\* <<n>> when present with value n.
Market(price, bid, ask) == [yes_price |-> price, yes_bid |-> bid, yes_ask |-> ask]

UpstreamEvents ==
    { [event_ticker |-> "A", title |-> <<"a">>,
       markets |-> <<Market(<<63>>, <<>>, <<>>)>>],
      [event_ticker |-> "A", title |-> <<" ", "b", "\t", " ", "c">>,
       markets |-> <<Market(<<>>, <<40>>, <<60>>), Market(<<10>>, <<>>, <<>>)>>],
      [event_ticker |-> "B", title |-> <<"a", " ">>,
       markets |-> <<>>],
      [event_ticker |-> "", title |-> <<"a">>,
       markets |-> <<Market(<<63>>, <<>>, <<>>)>>],
      [event_ticker |-> "B", title |-> <<>>,
       markets |-> <<Market(<<>>, <<>>, <<>>)>>] }

Cursors == {"c1", "c2"}

\* only an empty string ends the pagination, a missing cursor does not
NoCursorsEmptyOnly == {""}

NoCursors == {None, ""}     \* a missing or null cursor, an empty one

\* A response body: falsy (an empty object, null), or a page.
FalsyBody == [falsy |-> TRUE, events |-> <<>>, cursor |-> None]
PageBody(events, cursor) == [falsy |-> FALSE, events |-> events, cursor |-> cursor]

\* ------------------------------------------------------- KalshiProvider
\* base_delay * 2^attempt, with the doubling off by one
BackoffLate(base, attempt) == base * Pow(2, attempt + 1)

Backoff(base, attempt) == base * Pow(2, attempt)

_extract_probability(event) ==
    IF event.markets = <<>> THEN 0
    ELSE LET market == event.markets[1]
             yes_bid == IF market.yes_bid = <<>> \/ market.yes_bid[1] = 0
                        THEN 0 ELSE market.yes_bid[1]
             yes_ask == IF market.yes_ask = <<>> \/ market.yes_ask[1] = 0
                        THEN 100 ELSE market.yes_ask[1]
         IN  IF market.yes_price # <<>>
             THEN (market.yes_price[1] * Pow(10, Scale)) \div 100
             ELSE ((yes_bid + yes_ask) * Pow(10, Scale)) \div 200

RECURSIVE Collapse(_, _, _)
\* " ".join(title.split()): out is the text built so far, pending says that
\* whitespace was seen after it
Collapse(title, out, pending) ==
    IF title = <<>> THEN out
    ELSE IF Head(title) \in Whitespace
         THEN Collapse(Tail(title), out, out # <<>>)
         ELSE Collapse(Tail(title),
                       (IF pending THEN Append(out, " ") ELSE out) \o <<Head(title)>>,
                       FALSE)

_clean_title(title) == IF title = <<>> THEN <<>> ELSE Collapse(title, <<>>, FALSE)

\* the record fetch_all_events keeps for an event
Shaped(event) ==
    [id |-> event.event_ticker,
     title |-> _clean_title(event.title),
     prob |-> _extract_probability(event)]

RECURSIVE Kept(_)
\* the for loop over one page's events: those without a ticker or a title
\* are skipped
Kept(events) ==
    IF events = <<>> THEN <<>>
    ELSE (IF Head(events).event_ticker = "" \/ Head(events).title = <<>>
          THEN <<>> ELSE <<Shaped(Head(events))>>) \o Kept(Tail(events))

\* the cursor parameter of the next request, never attached
NextParamsNoCursor(cursor) == <<>>

\* the cursor parameter of the next request: <<>> when the key is absent
NextParams(cursor) == IF cursor \in NoCursors THEN <<>> ELSE <<cursor>>

\* ------------------------------------------------------------- main.py
\* The embedding generator: SentenceTransformer(MODEL_NAME).encode, a fixed
\* function from a title to a vector. It is one that gives different titles
\* different vectors (so that a vector tells which title it was computed
\* from), with components on both sides of a rounding tie.
Titles == {_clean_title(e.title) : e \in {x \in UpstreamEvents : x.title # <<>>}}

Generator == [t \in Titles |-> IF t = <<"a">> THEN <<15625, 400004>> ELSE <<46875, 123456>>]

encode(titles) == [i \in 1..Len(titles) |-> Generator[titles[i]]]

\* markets.json: absent, text that is not JSON, bytes that are not text in the
\* encoding open() reads with, or a list of records
AbsentFile == [kind |-> "absent", recs |-> <<>>]
CorruptFile == [kind |-> "corrupt", recs |-> <<>>]
UndecodableFile == [kind |-> "undecodable", recs |-> <<>>]
ListFile(recs) == [kind |-> "list", recs |-> recs]

LastIndexOf(recs, id) ==
    CHOOSE i \in 1..Len(recs) : recs[i].id = id /\ \A j \in (i + 1)..Len(recs) : recs[j].id # id

\* json.load reads the whole file as text before it parses it: bytes that do
\* not decode raise UnicodeDecodeError, a ValueError that is no JSONDecodeError
\* and that the except clause lets through
load_raises(f) == f.kind = "undecodable"

\* {item["id"]: item for item in data}: a later item replaces an earlier one
load_existing_data(f) ==
    IF f.kind = "list"
    THEN [id \in {r.id : r \in Range(f.recs)} |-> f.recs[LastIndexOf(f.recs, id)]]
    ELSE <<>>

Ids(events) == {e.id : e \in Range(events)}

\* a record of final_data
Entry(event, v) ==
    [id |-> event.id, t |-> event.title, p |-> round(event.prob, ProbPrecision),
     v |-> v, s |-> "K"]

\* the record of an existing market, its vector computed again
UpdatedEntryEncoded(event, old_entry) == Entry(event, round_vector(Generator[event.title]))

\* the record of an existing market, its old probability kept
UpdatedEntryOldProb(event, old_entry) == [Entry(event, old_entry.v) EXCEPT !.p = old_entry.p]

\* the record of an existing market, its old title kept
UpdatedEntryOldTitle(event, old_entry) == [Entry(event, old_entry.v) EXCEPT !.t = old_entry.t]

\* the record of an existing market: fresh fields, the old vector
UpdatedEntry(event, old_entry) == Entry(event, old_entry.v)

RECURSIVE ExistingFrom(_, _, _)
\* step 5's loop, the else branch, over the events from some point on
ExistingFrom(events, new, old_data) ==
    IF events = <<>> THEN <<>>
    ELSE (IF Head(events).id \in new THEN <<>>
          ELSE <<UpdatedEntry(Head(events), old_data[Head(events).id])>>)
         \o ExistingFrom(Tail(events), new, old_data)

RECURSIVE SeqOfSet(_)
SeqOfSet(S) == IF S = {} THEN <<>> ELSE LET x == CHOOSE y \in S : TRUE IN <<x>> \o SeqOfSet(S \ {x})

\* final_data after step 5, with the expired markets carried forward
ExistingAndExpired(events, new, old_data) ==
    ExistingFrom(events, new, old_data)
        \o SeqOfSet({old_data[id] : id \in DOMAIN old_data \ Ids(events)})

\* step 5's loop: final_data after it
ExistingEntries(events, new, old_data) == ExistingFrom(events, new, old_data)

\* the records of the new markets, the vectors zipped back in reverse
NewEntriesReversed(events, vectors) ==
    [i \in 1..(IF Len(events) < Len(vectors) THEN Len(events) ELSE Len(vectors)) |->
        Entry(events[i], round_vector(vectors[Len(vectors) + 1 - i]))]

\* step 6's loop: zip(new_events_for_embedding, vectors)
NewEntries(events, vectors) ==
    [i \in 1..(IF Len(events) < Len(vectors) THEN Len(events) ELSE Len(vectors)) |->
        Entry(events[i], round_vector(vectors[i]))]

TitlesOf(events) == [i \in 1..Len(events) |-> events[i].title]

\* Steps 2 to 6 as one function: what main() passes to save_data for a
\* non-empty fetch result and a given markets.json.
main_output(events, f) ==
    LET old == load_existing_data(f)
        new == Ids(events) \ DOMAIN old
        queued == SelectSeqBy(events, new)
    IN  ExistingEntries(events, new, old) \o NewEntries(queued, encode(TitlesOf(queued)))

\* ---------------------------------------------------------------- state
VARIABLES
    file,           \* output/markets.json
    max_retries,    \* self.max_retries
    base_delay,     \* self.base_delay
    pc,             \* where the run is
    cursor,         \* fetch_all_events: cursor
    params_cursor,  \* fetch_all_events: params["cursor"], <<>> when absent
    all_events,     \* fetch_all_events: all_events
    attempt,        \* _make_request: attempt
    current_events, \* main: current_events
    old_data,       \* main: old_data
    new_ids,        \* main: new_ids
    updated_ids,    \* main: updated_ids
    expired_ids,    \* main: expired_ids
    model,          \* main: model
    final_data,     \* main: final_data
    new_events_for_embedding,   \* main: new_events_for_embedding
    exit_code,      \* the process's exit code, <<>> while it runs
    \* what the run did, recorded for the properties
    call,           \* how the current _make_request call stands
    tries,          \* session.get calls made by the current _make_request call
    sleeps,         \* time.sleep delays of the current _make_request call
    requests,       \* the cursor parameter of each page request of this fetch
    pages,          \* per response of this fetch: falsy or not, kept events, cursor
    model_loads,    \* SentenceTransformer(...) calls of this run
    encoded,        \* the title batches passed to model.encode in this run
    writes,         \* save_data calls of this run
    file0,          \* the file when the run started
    call_event,     \* _extract_probability called on its own: event
    call_prob       \* _extract_probability called on its own: <<the return value>>

provider_vars == <<cursor, params_cursor, all_events, attempt, call, tries, sleeps,
                   requests, pages>>
main_vars == <<current_events, old_data, new_ids, updated_ids, expired_ids, model,
               final_data, new_events_for_embedding, model_loads, encoded, writes>>
extract_vars == <<call_event, call_prob>>
vars == <<file, max_retries, base_delay, pc, exit_code, file0,
          provider_vars, main_vars, extract_vars>>

AllIds == {e.event_ticker : e \in UpstreamEvents} \ {""}

ProviderStart ==
    /\ cursor = None /\ params_cursor = <<>> /\ all_events = <<>>
    /\ attempt = 0 /\ call = "none" /\ tries = 0 /\ sleeps = <<>>
    /\ requests = <<>> /\ pages = <<>>

MainStart ==
    /\ current_events = <<>> /\ old_data = <<>>
    /\ new_ids = {} /\ updated_ids = {} /\ expired_ids = {}
    /\ model = None /\ final_data = <<>> /\ new_events_for_embedding = <<>>
    /\ model_loads = 0 /\ encoded = <<>> /\ writes = 0

\* _extract_probability has not been called on its own
NoDirectCall == call_event = <<>> /\ call_prob = <<>>

\* The update script, run on a schedule: a provider with the default retry
\* settings, any earlier markets.json.
Init ==
    /\ file \in {AbsentFile, CorruptFile, UndecodableFile, ListFile(<<>>)}
    /\ max_retries = DefaultMaxRetries
    /\ base_delay = DefaultBaseDelay
    /\ pc = "idle"
    /\ exit_code = <<>>
    /\ file0 = file
    /\ ProviderStart
    /\ MainStart
    /\ NoDirectCall

\* The provider on its own, constructed with any retry settings.
InitProvider ==
    /\ file = AbsentFile
    /\ max_retries \in 0..MaxRetriesBound
    /\ base_delay \in 1..MaxDelay
    /\ pc = "idle"
    /\ exit_code = <<>>
    /\ file0 = file
    /\ ProviderStart
    /\ MainStart
    /\ NoDirectCall

\* ------------------------------------------------------------- actions
ProviderReset ==
    /\ cursor' = None /\ params_cursor' = <<>> /\ all_events' = <<>>
    /\ attempt' = 0 /\ call' = "none" /\ tries' = 0 /\ sleeps' = <<>>
    /\ requests' = <<>> /\ pages' = <<>>

MainReset ==
    /\ current_events' = <<>> /\ old_data' = <<>>
    /\ new_ids' = {} /\ updated_ids' = {} /\ expired_ids' = {}
    /\ model' = None /\ final_data' = <<>> /\ new_events_for_embedding' = <<>>
    /\ model_loads' = 0 /\ encoded' = <<>> /\ writes' = 0

\* The response bodies the upstream may serve next, within the bounds: the
\* last page it serves carries no cursor.
Responses(max_pages, n_pages, n_events) ==
    {FalsyBody} \cup
    { PageBody(ev, c) :
        ev \in SeqsUpTo(UpstreamEvents, MaxEvents - n_events),
        c \in IF n_pages + 1 < max_pages THEN {None} \cup Cursors ELSE {None} }

\* main() starts: provider = KalshiProvider(); fetch_all_events() sets up
\* its locals.
StartRun ==
    /\ pc \in {"idle", "done"}
    /\ pc' = "loop"
    /\ exit_code' = <<>>
    /\ file0' = file
    /\ ProviderReset
    /\ MainReset
    /\ UNCHANGED <<file, max_retries, base_delay, extract_vars>>

\* kalshi_provider.py run as a script: fetch_all_events() on its own.
QuickTest ==
    /\ pc \in {"idle", "fetched", "done"}
    /\ pc' = "loop"
    /\ exit_code' = <<>>
    /\ ProviderReset
    /\ MainReset
    /\ UNCHANGED <<file, file0, max_retries, base_delay, extract_vars>>

\* The top of the while loop, with _make_request's attempt counter left where
\* the call before stopped
NextPageKeepsAttempt ==
    /\ pc = "loop"
    /\ params_cursor' = NextParams(cursor)
    /\ requests' = Append(requests, params_cursor')
    /\ call' = "running"
    /\ pc' = "request"
    /\ UNCHANGED <<file, max_retries, base_delay, extract_vars, exit_code, file0,
                   cursor, all_events, pages, main_vars, attempt, tries, sleeps>>

\* The top of the while loop: set or drop the cursor parameter and call
\* _make_request.
NextPage ==
    /\ pc = "loop"
    /\ params_cursor' = NextParams(cursor)
    /\ requests' = Append(requests, params_cursor')
    /\ attempt' = 0
    /\ tries' = 0
    /\ sleeps' = <<>>
    /\ call' = "running"
    /\ pc' = "request"
    /\ UNCHANGED <<file, max_retries, base_delay, extract_vars, exit_code, file0,
                   cursor, all_events, pages, main_vars>>

\* fetch_all_events returns all_events to its caller.
Returned(events) ==
    /\ pc' = "fetched"
    /\ current_events' = events

\* range(max_retries) is empty: _make_request returns None and the loop
\* breaks.
ReturnNone ==
    /\ pc = "request"
    /\ attempt >= max_retries
    /\ call' = "returned_none"
    /\ Returned(all_events)
    /\ UNCHANGED <<file, max_retries, base_delay, extract_vars, exit_code, file0,
                   cursor, params_cursor, all_events, attempt, tries, sleeps, requests, pages,
                   old_data, new_ids, updated_ids, expired_ids, model, final_data,
                   new_events_for_embedding, model_loads, encoded, writes>>

\* An attempt succeeds: _make_request returns the body, and the loop body
\* appends the page's events and reads the cursor.
PageReceived(body) ==
    /\ pc = "request"
    /\ attempt < max_retries
    /\ tries' = tries + 1
    /\ call' = "returned"
    /\ pages' = Append(pages, [body EXCEPT !.events = Kept(body.events)])
    /\ IF body.falsy
       THEN /\ UNCHANGED <<all_events, cursor>>
            /\ Returned(all_events)
       ELSE /\ all_events' = all_events \o Kept(body.events)
            /\ cursor' = body.cursor
            /\ IF body.cursor \in NoCursors
               THEN Returned(all_events')
               ELSE pc' = "loop" /\ UNCHANGED current_events
    /\ UNCHANGED <<file, max_retries, base_delay, extract_vars, exit_code, file0,
                   params_cursor, attempt, sleeps, requests,
                   old_data, new_ids, updated_ids, expired_ids, model, final_data,
                   new_events_for_embedding, model_loads, encoded, writes>>

\* An attempt fails before the last one: sleep, then try again.
AttemptFailsRetry ==
    /\ pc = "request"
    /\ attempt < max_retries
    /\ attempt < max_retries - 1
    /\ tries' = tries + 1
    /\ sleeps' = Append(sleeps, Backoff(base_delay, attempt))
    /\ attempt' = attempt + 1
    /\ UNCHANGED <<file, max_retries, base_delay, extract_vars, pc, exit_code, file0,
                   cursor, params_cursor, all_events, call, requests, pages, main_vars>>

\* The last attempt fails and the RuntimeError is swallowed: the loop breaks
\* and fetch_all_events returns what it has
AttemptFailsReturnsPartial ==
    /\ pc = "request"
    /\ attempt < max_retries
    /\ ~(attempt < max_retries - 1)
    /\ tries' = tries + 1
    /\ call' = "raised"
    /\ Returned(all_events)
    /\ UNCHANGED <<file, max_retries, base_delay, extract_vars, exit_code, file0,
                   cursor, params_cursor, all_events, attempt, sleeps, requests, pages,
                   old_data, new_ids, updated_ids, expired_ids, model, final_data,
                   new_events_for_embedding, model_loads, encoded, writes>>

\* The last attempt fails and the call starts over at attempt 0: retries
\* without a limit
AttemptFailsStartsOver ==
    /\ pc = "request"
    /\ attempt < max_retries
    /\ ~(attempt < max_retries - 1)
    /\ tries' = 0
    /\ attempt' = 0
    /\ sleeps' = <<>>
    /\ UNCHANGED <<file, max_retries, base_delay, extract_vars, pc, exit_code, file0,
                   cursor, params_cursor, all_events, call, requests, pages, main_vars>>

\* The last attempt fails: _make_request raises RuntimeError, which
\* fetch_all_events lets through; main() prints it and exits with 1 (and so
\* does the interpreter when nothing catches it).
AttemptFailsRaise ==
    /\ pc = "request"
    /\ attempt < max_retries
    /\ ~(attempt < max_retries - 1)
    /\ tries' = tries + 1
    /\ call' = "raised"
    /\ pc' = "done"
    /\ exit_code' = <<1>>
    /\ UNCHANGED <<file, max_retries, base_delay, extract_vars, file0,
                   cursor, params_cursor, all_events, attempt, sleeps, requests, pages,
                   main_vars>>

\* fetch_all_events has returned: its locals are gone.
ProviderGone ==
    /\ cursor' = None /\ params_cursor' = <<>> /\ all_events' = <<>>
    /\ attempt' = 0 /\ tries' = 0 /\ sleeps' = <<>>
    /\ requests' = <<>> /\ pages' = <<>>
    /\ UNCHANGED call

\* the safety check, left out
NoSuspicion(events) == FALSE

\* "if not current_events": the API returned 0 events
SuspectOutage(events) == events = <<>>

\* Safety check: exit without changes.
ExitNoEvents ==
    /\ pc = "fetched"
    /\ SuspectOutage(current_events)
    /\ pc' = "done"
    /\ exit_code' = <<0>>
    /\ ProviderGone
    /\ UNCHANGED <<file, max_retries, base_delay, extract_vars, file0, main_vars>>

\* the model is loaded whatever the ids
AlwaysNeedsModel(new) == TRUE

\* "if new_ids": load the model only if there are new markets
NeedsModel(new) == new # {}

\* Steps 2 to 4: load the existing data, tell new, updated and expired ids
\* apart, load the model if there are new ids.
LoadAndClassify ==
    /\ pc = "fetched"
    /\ ~SuspectOutage(current_events)
    /\ IF load_raises(file)
       THEN /\ pc' = "done"
            /\ exit_code' = <<1>>
            /\ UNCHANGED <<old_data, new_ids, updated_ids, expired_ids, model, model_loads>>
       ELSE /\ old_data' = load_existing_data(file)
            /\ LET current_ids == Ids(current_events)
                   old_ids == DOMAIN old_data'
               IN  /\ new_ids' = current_ids \ old_ids
                   /\ updated_ids' = current_ids \cap old_ids
                   /\ expired_ids' = old_ids \ current_ids
            /\ IF NeedsModel(new_ids')
               THEN model' = "loaded" /\ model_loads' = model_loads + 1
               ELSE UNCHANGED <<model, model_loads>>
            /\ pc' = "process"
            /\ UNCHANGED exit_code
    /\ ProviderGone
    /\ UNCHANGED <<file, max_retries, base_delay, extract_vars, file0,
                   current_events, final_data, new_events_for_embedding, encoded, writes>>

\* Step 5: existing markets go to final_data with their old vector, new ones
\* are queued for embedding.
ProcessEvents ==
    /\ pc = "process"
    /\ final_data' = ExistingEntries(current_events, new_ids, old_data)
    /\ new_events_for_embedding' = SelectSeqBy(current_events, new_ids)
    /\ pc' = "embed"
    /\ UNCHANGED <<file, max_retries, base_delay, extract_vars, exit_code, file0,
                   provider_vars, current_events, old_data, new_ids, updated_ids, expired_ids,
                   model, model_loads, encoded, writes>>

\* Step 6 with the new records put in front of the existing ones
EmbedNewFirst ==
    /\ pc = "embed"
    /\ IF new_events_for_embedding = <<>>
       THEN /\ pc' = "save"
            /\ UNCHANGED <<final_data, encoded, exit_code>>
       ELSE IF model = None
       THEN /\ pc' = "done"
            /\ exit_code' = <<1>>
            /\ UNCHANGED <<final_data, encoded>>
       ELSE LET titles == TitlesOf(new_events_for_embedding)
                vectors == encode(titles)
            IN  /\ encoded' = Append(encoded, titles)
                /\ final_data' = NewEntries(new_events_for_embedding, vectors) \o final_data
                /\ pc' = "save"
                /\ UNCHANGED exit_code
    /\ UNCHANGED <<file, max_retries, base_delay, extract_vars, file0,
                   provider_vars, current_events, old_data, new_ids, updated_ids, expired_ids,
                   model, new_events_for_embedding, model_loads, writes>>

\* Step 6: one encode call for the titles of the new markets, if any. With
\* no model loaded the call is an AttributeError, which ends the run.
EmbedNew ==
    /\ pc = "embed"
    /\ IF new_events_for_embedding = <<>>
       THEN /\ pc' = "save"
            /\ UNCHANGED <<final_data, encoded, exit_code>>
       ELSE IF model = None
       THEN /\ pc' = "done"
            /\ exit_code' = <<1>>
            /\ UNCHANGED <<final_data, encoded>>
       ELSE LET titles == TitlesOf(new_events_for_embedding)
                vectors == encode(titles)
            IN  /\ encoded' = Append(encoded, titles)
                /\ final_data' = final_data \o NewEntries(new_events_for_embedding, vectors)
                /\ pc' = "save"
                /\ UNCHANGED exit_code
    /\ UNCHANGED <<file, max_retries, base_delay, extract_vars, file0,
                   provider_vars, current_events, old_data, new_ids, updated_ids, expired_ids,
                   model, new_events_for_embedding, model_loads, writes>>

\* Step 7: save_data(final_data), and main() returns.
SaveData ==
    /\ pc = "save"
    /\ file' = ListFile(final_data)
    /\ writes' = writes + 1
    /\ pc' = "done"
    /\ exit_code' = <<0>>
    /\ UNCHANGED <<max_retries, base_delay, extract_vars, file0, provider_vars,
                   current_events, old_data, new_ids, updated_ids, expired_ids, model,
                   final_data, new_events_for_embedding, model_loads, encoded>>

\* ------------------------------------------------------- specifications
Next ==
    \/ StartRun
    \/ NextPage
    \/ \E body \in Responses(MaxPages, Len(pages), Len(all_events)) : PageReceived(body)
    \/ AttemptFailsRetry
    \/ AttemptFailsRaise
    \/ ExitNoEvents
    \/ LoadAndClassify
    \/ ProcessEvents
    \/ EmbedNew
    \/ SaveData

Spec == Init /\ [][Next]_vars

NextProvider ==
    \/ QuickTest
    \/ NextPage
    \/ ReturnNone
    \/ \E body \in Responses(MaxProviderPages, Len(pages), Len(all_events)) :
            PageReceived(body)
    \/ AttemptFailsRetry
    \/ AttemptFailsRaise

SpecProvider == InitProvider /\ [][NextProvider]_vars

\* The runs keep going: the script is started again on its schedule and a
\* run that has started takes its next step.
SpecFair == Spec /\ WF_vars(Next)

\* The provider constructed with any retry count and the default delay.
InitProviderDefaultDelay ==
    /\ file = AbsentFile
    /\ max_retries \in 0..MaxRetriesBound
    /\ base_delay = DefaultBaseDelay
    /\ pc = "idle"
    /\ exit_code = <<>>
    /\ file0 = file
    /\ ProviderStart
    /\ MainStart
    /\ NoDirectCall

\* A fetch that has started goes on: every attempt ends, in a success or in a
\* failure, and the script is run again.
SpecProviderFair ==
    InitProviderDefaultDelay /\ [][NextProvider]_vars /\ WF_vars(NextProvider)

\* ------------------------------------------ _extract_probability on its own
\* cent values of a market field, and a field that may be missing or null
PriceValues == {0, 1, 40, 60, 63, 100}
Opt(S) == {<<>>} \cup {<<n>> : n \in S}

\* events as the API may give them: no market, one market, or a second
\* market after the first
MarketValues == {Market(p, b, a) : p \in Opt(PriceValues), b \in Opt(PriceValues), a \in Opt(PriceValues)}
EventValues ==
    {[event_ticker |-> "A", title |-> <<"a">>, markets |-> ms] :
        ms \in {<<>>} \cup {<<m>> : m \in MarketValues}
                      \cup {<<m, Market(<<10>>, <<>>, <<>>)>> : m \in MarketValues}}

InitExtract ==
    /\ file = AbsentFile
    /\ max_retries = DefaultMaxRetries
    /\ base_delay = DefaultBaseDelay
    /\ pc = "idle"
    /\ exit_code = <<>>
    /\ file0 = file
    /\ ProviderStart
    /\ MainStart
    /\ call_event \in EventValues
    /\ call_prob = <<>>

ExtractProbability ==
    /\ call_prob = <<>>
    /\ call_prob' = <<_extract_probability(call_event)>>
    /\ UNCHANGED <<file, max_retries, base_delay, pc, exit_code, file0,
                   provider_vars, main_vars, call_event>>

NextExtract == ExtractProbability

SpecExtract == InitExtract /\ [][NextExtract]_vars

\* ------------------------------------------------- the bootstrap script
BootstrapProbPrecision == 4
BootstrapVectorPrecision == 5

\* the vector as the generator gave it
bootstrap_round_vector_none(vector) == vector

\* generate_initial.py has a round_vector of its own
bootstrap_round_vector(vector) ==
    [i \in 1..Len(vector) |-> round(vector[i], BootstrapVectorPrecision)]

\* zip(events, vectors): a record per fetched event
BootstrapEntries(events, vectors) ==
    [i \in 1..(IF Len(events) < Len(vectors) THEN Len(events) ELSE Len(vectors)) |->
        [id |-> events[i].id, t |-> events[i].title,
         p |-> round(events[i].prob, BootstrapProbPrecision),
         v |-> bootstrap_round_vector(vectors[i]), s |-> "K"]]

\* Run by hand, once or again, whatever markets.json is there.
InitBootstrap ==
    /\ file \in {AbsentFile, CorruptFile, UndecodableFile, ListFile(<<>>)}
    /\ max_retries = DefaultMaxRetries
    /\ base_delay = DefaultBaseDelay
    /\ pc = "idle"
    /\ exit_code = <<>>
    /\ file0 = file
    /\ ProviderStart
    /\ MainStart
    /\ NoDirectCall

\* Step 1 and the start of step 2: the model is loaded before anything is
\* fetched; fetch_all_events() sets up its locals.
BootstrapStart ==
    /\ pc \in {"idle", "done"}
    /\ pc' = "loop"
    /\ exit_code' = <<>>
    /\ file0' = file
    /\ ProviderReset
    /\ current_events' = <<>> /\ old_data' = <<>>
    /\ new_ids' = {} /\ updated_ids' = {} /\ expired_ids' = {}
    /\ model' = "loaded" /\ model_loads' = 1
    /\ final_data' = <<>> /\ new_events_for_embedding' = <<>>
    /\ encoded' = <<>> /\ writes' = 0
    /\ UNCHANGED <<file, max_retries, base_delay, extract_vars>>

\* "if not events": exit with code 1.
BootstrapNoEvents ==
    /\ pc = "fetched"
    /\ current_events = <<>>
    /\ pc' = "done"
    /\ exit_code' = <<1>>
    /\ ProviderGone
    /\ UNCHANGED <<file, max_retries, base_delay, extract_vars, file0, main_vars>>

\* Steps 3 and 4: encode every title, build markets_data, write the file.
BootstrapWrite ==
    /\ pc = "fetched"
    /\ current_events # <<>>
    /\ LET titles == TitlesOf(current_events)
           vectors == encode(titles)
       IN  /\ encoded' = Append(encoded, titles)
           /\ final_data' = BootstrapEntries(current_events, vectors)
    /\ file' = ListFile(final_data')
    /\ writes' = writes + 1
    /\ pc' = "done"
    /\ exit_code' = <<0>>
    /\ ProviderGone
    /\ UNCHANGED <<max_retries, base_delay, extract_vars, file0,
                   current_events, old_data, new_ids, updated_ids, expired_ids, model,
                   new_events_for_embedding, model_loads>>

NextBootstrap ==
    \/ BootstrapStart
    \/ NextPage
    \/ \E body \in Responses(MaxPages, Len(pages), Len(all_events)) : PageReceived(body)
    \/ AttemptFailsRetry
    \/ AttemptFailsRaise
    \/ BootstrapNoEvents
    \/ BootstrapWrite

SpecBootstrap == InitBootstrap /\ [][NextBootstrap]_vars

\* ------------------------------------------------------------ properties
RecIds(recs) == {r.id : r \in Range(recs)}

\* the run has written markets.json
Wrote == pc = "done" /\ writes = 1

\* the vectors the records of an id hold in a file
VecsOf(f, id) == {r.v : r \in {x \in Range(f.recs) : x.id = id}}

AllVectors == {round_vector(Generator[t]) : t \in Titles}

\* C1: a run whose fetch returns zero events never writes markets.json (the
\* file is the one the run started with, whatever it was) and ends with exit
\* code 0.
C1_ZeroEventsNoWrite ==
    (call = "returned" /\ current_events = <<>> /\ pc \in {"fetched", "done"}) =>
        /\ file = file0
        /\ writes = 0
        /\ pc = "done" => exit_code = <<0>>

C1_Witness ==
    /\ pc = "done" /\ call = "returned" /\ current_events = <<>>
    /\ exit_code = <<0>>
    /\ file0.kind = "list" /\ Len(file0.recs) = 2

\* C2: no two records of markets.json have the same id, whatever event
\* tickers the upstream pages carry.
C2_UniqueIds ==
    \A i, j \in 1..Len(file.recs) : file.recs[i].id = file.recs[j].id => i = j

\* C3: a second run of main() on the same fetch result writes the file the
\* first run wrote: for the file just written and the events it was written
\* from, main()'s output is that file again. Stated for the fetch results
\* whose ids are all different, where C2's duplicates play no part.
C3_Idempotent ==
    (Wrote /\ Cardinality(Ids(current_events)) = Len(current_events)) =>
        main_output(current_events, file) = file.recs

\* C4 as claimed: once an id holds a vector in markets.json, every later
\* markets.json that contains the id holds that vector for it, with the
\* listed ids free to vary between runs.
C4_VectorNeverChanges ==
    \A id \in AllIds : \A V \in (SUBSET AllVectors) \ {{}} :
        [](VecsOf(file, id) = V =>
             [](VecsOf(file, id) # {} => VecsOf(file, id) \subseteq V))

\* C4 as amended: every record a run writes for an id that the file it
\* loaded contains holds the vector of that id's (last) record in the loaded
\* file, so an id's vector stays the same for as long as every run that
\* writes lists the id.
C4_VectorCarried ==
    Wrote =>
        LET old == load_existing_data(file0)
        IN  \A i \in 1..Len(file.recs) :
                file.recs[i].id \in DOMAIN old => file.recs[i].v = old[file.recs[i].id].v

C4_Witness ==
    /\ Wrote
    /\ \E i \in 1..Len(file.recs) :
        LET r == file.recs[i]
            old == load_existing_data(file0)
        IN  /\ r.id \in DOMAIN old
            /\ r.t # old[r.id].t
            /\ r.p # old[r.id].p
            /\ r.v = old[r.id].v
            /\ r.v # round_vector(Generator[r.t])

\* C5: new, updated and expired ids are the three differences of the
\* fetched and the stored ids and are pairwise disjoint; the ids of the file
\* written are exactly new \cup updated, the fetched ids, and none of them is
\* an expired id.
C5_ExactNextState ==
    Wrote =>
        LET stored == DOMAIN load_existing_data(file0)
            fetched == Ids(current_events)
            written == RecIds(file.recs)
        IN  /\ new_ids = fetched \ stored
            /\ updated_ids = fetched \cap stored
            /\ expired_ids = stored \ fetched
            /\ new_ids \cap updated_ids = {}
            /\ new_ids \cap expired_ids = {}
            /\ updated_ids \cap expired_ids = {}
            /\ written = new_ids \cup updated_ids
            /\ written = fetched
            /\ written \cap expired_ids = {}

C5_Witness ==
    /\ Wrote
    /\ expired_ids # {}
    /\ new_ids # {}
    /\ RecIds(file0.recs) \ RecIds(file.recs) # {}

Delays(k) == [i \in 1..k |-> base_delay * Pow(2, i - 1)]

RECURSIVE Flatten(_)
Flatten(ps) == IF ps = <<>> THEN <<>> ELSE Head(ps).events \o Flatten(Tail(ps))

\* C8: requests and responses alternate; when the fetch returns after k
\* pages, the first k-1 with a cursor and the last without, it has issued k
\* requests, the first without a cursor parameter and each later one with the
\* cursor of the response before it, and its result is the pages' kept events
\* in page order.
C8_Pagination ==
    /\ pc = "request" => Len(requests) = Len(pages) + 1
    /\ pc = "loop" => Len(requests) = Len(pages)
    /\ (pc = "fetched" /\ pages # <<>> /\ \A i \in 1..Len(pages) : ~pages[i].falsy) =>
        LET k == Len(pages)
        IN  /\ \A i \in 1..(k - 1) : pages[i].cursor \in Cursors
            /\ pages[k].cursor \notin Cursors
            /\ Len(requests) = k
            /\ requests[1] = <<>>
            /\ \A i \in 2..k : requests[i] = <<pages[i - 1].cursor>>
            /\ all_events = Flatten(pages)
            /\ current_events = all_events

C8_Witness ==
    /\ pc = "fetched"
    /\ Len(pages) = 3
    /\ pages[1].events # <<>> /\ pages[3].events # <<>>
    /\ pages[1].events # pages[3].events
    /\ requests = << <<>>, <<"c1">>, <<"c2">> >>
    /\ current_events = pages[1].events \o pages[3].events

\* main() is past step 4
Classified == pc \in {"process", "embed", "save"} \/ Wrote

\* C9: a run loads the model at most once and calls encode at most once; in a
\* run where every fetched id is in the loaded file it does neither.
C9_NoEmbeddingWithoutNewIds ==
    /\ model_loads <= 1
    /\ Len(encoded) <= 1
    /\ (Classified /\ Ids(current_events) \subseteq DOMAIN load_existing_data(file0)) =>
        (model = None /\ model_loads = 0 /\ encoded = <<>>)

C9_Witness ==
    /\ Wrote
    /\ Ids(current_events) \subseteq DOMAIN load_existing_data(file0)
    /\ Len(current_events) = 2
    /\ model_loads = 0 /\ encoded = <<>>

\* in micro-units
ProbsOf(recs, id) ==
    LET of == SelectSeqBy(recs, {id}) IN [i \in 1..Len(of) |-> of[i].p]

Rounded4(x, p) ==
    /\ p % Pow(10, Scale - ProbPrecision) = 0
    /\ 2 * (p - x) <= Pow(10, Scale - ProbPrecision)
    /\ 2 * (x - p) <= Pow(10, Scale - ProbPrecision)

\* C10: after a run that writes, the records of each id carry, in order, the
\* probabilities fetched in this run for that id's events, each rounded to 4
\* places, whatever the loaded file held.
C10_ProbabilityRefreshed ==
    Wrote =>
        /\ Len(file.recs) = Len(current_events)
        /\ \A id \in AllIds :
            LET got == SelectSeqBy(current_events, {id})
                put == ProbsOf(file.recs, id)
            IN  /\ Len(put) = Len(got)
                /\ \A i \in 1..Len(got) : Rounded4(got[i].prob, put[i])

C10_Witness ==
    /\ Wrote
    /\ \E i \in 1..Len(file.recs) :
        LET r == file.recs[i]
            old == load_existing_data(file0)
        IN  /\ r.id \in DOMAIN old
            /\ old[r.id].p = 630000
            /\ r.p = 500000

\* ------------------------------------------------------------------ C11
\* a file that is absent or that cannot be parsed
Unparsable(f) == f.kind \in {"absent", "corrupt", "undecodable"}

\* C11: when markets.json is absent or cannot be parsed, a run whose fetch
\* returned events loads the empty mapping, takes every fetched id as new,
\* embeds every fetched title, writes the full set and exits with code 0.
C11_CorruptionTolerantLoad ==
    (pc = "done" /\ call = "returned" /\ current_events # <<>> /\ Unparsable(file0)) =>
        /\ exit_code = <<0>>
        /\ writes = 1
        /\ old_data = <<>>
        /\ new_ids = Ids(current_events)
        /\ encoded = <<TitlesOf(current_events)>>
        /\ file = ListFile(NewEntries(current_events, encode(TitlesOf(current_events))))

\* the same for a file that is absent or that is text but not JSON: holds
C11_InvalidJsonLoadsEmpty ==
    (pc = "done" /\ call = "returned" /\ current_events # <<>>
        /\ file0.kind \in {"absent", "corrupt"}) =>
        /\ exit_code = <<0>>
        /\ writes = 1
        /\ old_data = <<>>
        /\ new_ids = Ids(current_events)
        /\ encoded = <<TitlesOf(current_events)>>
        /\ file = ListFile(NewEntries(current_events, encode(TitlesOf(current_events))))

\* ------------------------------------------------------------------ C12
\* x / 100.0 in the model's fixed point
Cents(x) == (x * Pow(10, Scale)) \div 100

\* C12: the probability comes from the first market only: yes_price / 100 when
\* yes_price is present; otherwise the midpoint (yes_bid + yes_ask) / 2 / 100,
\* a missing bid counting as 0 and a missing ask as 100, a present value
\* (0 included) used as given; 0 when the event has no markets.
C12_ProbabilityDerivation ==
    call_prob # <<>> =>
        LET ms == call_event.markets
        IN  IF ms = <<>> THEN call_prob[1] = 0
            ELSE IF ms[1].yes_price # <<>> THEN call_prob[1] = Cents(ms[1].yes_price[1])
            ELSE LET bid == IF ms[1].yes_bid = <<>> THEN 0 ELSE ms[1].yes_bid[1]
                     ask == IF ms[1].yes_ask = <<>> THEN 100 ELSE ms[1].yes_ask[1]
                 IN  2 * call_prob[1] = Cents(bid + ask)

\* the same with an ask of 0 left out: holds
C12_NonzeroAsk ==
    (call_prob # <<>> /\ call_event.markets # <<>>
        /\ call_event.markets[1].yes_ask # <<0>>) => C12_ProbabilityDerivation

C14_StopConditions ==
    /\ \A i \in 1..(Len(pages) - 1) : ~pages[i].falsy /\ pages[i].cursor \in Cursors
    /\ (pages # <<>> /\ pages[Len(pages)].cursor \notin Cursors) =>
        (pc \in {"fetched", "done"} /\ Len(requests) = Len(pages) /\ call = "returned")
    /\ (pages # <<>> /\ pages[Len(pages)].falsy) =>
        /\ pc = "fetched"
        /\ exit_code = <<>>
        /\ current_events = Flatten(SubSeq(pages, 1, Len(pages) - 1))

C14_Witness ==
    /\ pc = "fetched"
    /\ Len(pages) = 3 /\ pages[3].falsy
    /\ pages[1].events # <<>> /\ pages[2].events # <<>>
    /\ current_events = pages[1].events \o pages[2].events

\* a cursorless page that ends the fetch
C14_WitnessNoCursor ==
    /\ pc = "fetched"
    /\ Len(pages) = 2 /\ ~pages[2].falsy /\ pages[2].cursor = None
    /\ Len(requests) = 2

\* ------------------------------------------------------------------ C15
\* the fetched events whose id the loaded file does not hold, in fetch order
NewEvents == SelectSeqBy(current_events, Ids(current_events) \ DOMAIN load_existing_data(file0))

\* C15: a run with at least one new id passes the titles of all its new
\* events to the generator in one batch, in fetch order, and the record it
\* writes for the k-th new event holds the k-th vector returned, which is the
\* generator's vector for that record's title, each component rounded to 5
\* places.
C15_EmbeddingOrder ==
    (Wrote /\ NewEvents # <<>>) =>
        LET n == Len(NewEvents)
            first == Len(file.recs) - n
        IN  /\ encoded = <<[k \in 1..n |-> NewEvents[k].title]>>
            /\ first >= 0
            /\ \A k \in 1..n :
                LET r == file.recs[first + k]
                IN  /\ r.id = NewEvents[k].id
                    /\ r.t = encoded[1][k]
                    /\ Len(r.v) = Len(Generator[r.t])
                    /\ \A j \in 1..Len(r.v) : r.v[j] = round(Generator[r.t][j], VECTOR_PRECISION)

C15_Witness ==
    /\ Wrote
    /\ Len(NewEvents) = 2
    /\ NewEvents[1].title # NewEvents[2].title
    /\ file.recs[Len(file.recs)].v # file.recs[Len(file.recs) - 1].v
    /\ Len(file.recs) = 2

\* ------------------------------------------------------------------ C16
\* what main() writes is main_output of the fetch result and the file loaded
MainWritesMainOutput == Wrote => file = ListFile(main_output(current_events, file0))

\* C16: for a fetch result that is not empty, the file the bootstrap script
\* writes is, record for record and in order, what main.py's main() writes
\* for the same fetch result when markets.json is absent or holds an empty
\* list.
C16_BootstrapEquivalence ==
    (Wrote /\ current_events # <<>>) =>
        /\ file = ListFile(main_output(current_events, AbsentFile))
        /\ file = ListFile(main_output(current_events, ListFile(<<>>)))

C16_Witness ==
    /\ Wrote
    /\ Len(current_events) = 2
    /\ current_events[1].id = current_events[2].id
    /\ file.recs[1].v # file.recs[2].v
    /\ file0.kind = "list" /\ file0.recs # <<>>

Fetching == pc \in {"loop", "request"}

\* C18: with an upstream that serves a page without a cursor (or a falsy
\* body, or max_retries failures in a row) after finitely many pages, a fetch
\* that has started returns or raises; and whenever a page carries a cursor
\* the loop goes round again with it, however many pages it has had and
\* whatever cursors it has sent before.
C18_FetchTerminates ==
    /\ Fetching ~> (pc \in {"fetched", "done"})
    /\ [][(Len(pages') = Len(pages) + 1 /\ pages'[Len(pages')].cursor \in Cursors) =>
            (pc' = "loop" /\ cursor' = pages'[Len(pages')].cursor)]_vars

\* the fetch goes on asking with a cursor it has sent before
C18_Witness ==
    /\ pc = "request"
    /\ Len(requests) = 3
    /\ requests[2] = requests[3] /\ requests[2] # <<>>
    /\ Len(pages) = 2

\* ------------------------------------------------------------------ C19
\* the fetched events whose id the loaded file holds, in fetch order
UpdatedEvents == SelectSeqBy(current_events, Ids(current_events) \cap DOMAIN load_existing_data(file0))

IdsOf(s) == [i \in 1..Len(s) |-> s[i].id]

\* C20: the file a run writes lists the events whose id the loaded file holds
\* first, in fetch order, and then the events whose id is new, in fetch
\* order; the order of the records in the loaded file plays no part.
C20_WrittenOrder ==
    Wrote => IdsOf(file.recs) = IdsOf(UpdatedEvents) \o IdsOf(NewEvents)

\* the fetch lists a new id before an old one: the old one is written first
C20_Witness ==
    /\ Wrote
    /\ Len(current_events) = 2
    /\ current_events[1].id \notin RecIds(file0.recs)
    /\ current_events[2].id \in RecIds(file0.recs)
    /\ IdsOf(file.recs) = <<current_events[2].id, current_events[1].id>>

\* the fetch lists two old ids in the other order than the loaded file: the
\* fetch's order is written
C20_WitnessPriorOrder ==
    /\ Wrote
    /\ Len(file0.recs) = 2 /\ file0.recs[1].id # file0.recs[2].id
    /\ IdsOf(current_events) = <<file0.recs[2].id, file0.recs[1].id>>
    /\ IdsOf(file.recs) = IdsOf(current_events)

====
